---- MODULE Spec2Model ----
(***************************************************************************)
(* Block and state storage core of the node: the Merkle multi-proof of     *)
(* util/merkle-tree/src/proof.rs and the ChainKVStore of                    *)
(* chain/src/store.rs, as state machines.                                   *)
(*                                                                         *)
(* Option<T> is a sequence: None is <<>>, Some(x) is <<x>>.                 *)
(***************************************************************************)
EXTENDS Integers, Sequences, FiniteSets, TLC

VARIABLES
    leaves,      \* the leaf list a Tree was built from
    merkle,      \* Tree.nodes, the array tree (nodes[i] is merkle[i + 1])
    indexes,     \* the leaf_indexes of the last get_proof call
    proof,       \* Option<Proof>: the proof at hand
    origin,      \* where the proof at hand comes from
    proofRoot,   \* Option<Option<Item>>: the result of Proof::root, once called
    nidx,        \* a node index and what the NodeIndex functions gave for it
    pool,        \* the IndexedBlocks the callers hold
    db,          \* ChainKVStore.db: the columns of the key-value store
    tree,        \* ChainKVStore.tree: the cached AvlTree
    pc,          \* per thread: "idle", or "closure" inside save_with_batch's f
    batch,       \* per thread: the Batch of its save_with_batch call
    inserted,    \* per thread: the blocks insert_block put in that batch
    ncalls,      \* per thread: the calls f has made on that batch
    result,      \* per thread: what its last save_with_batch returned
    utm,         \* Option: the last update_transaction_meta call and its result
    rd,          \* the thread that runs get_block column by column
    it,          \* the ChainStoreHeaderIterator at hand
    lock,        \* the thread that holds the writer lock of tree, or 0
    call         \* per thread: its call on the tree that is under way

merkleVars == <<leaves, merkle, indexes, proof, origin, proofRoot, nidx>>

lockVars == <<lock, call>>

storeVars == <<pool, db, tree, pc, batch, inserted, ncalls, result, utm, rd, it,
               lock, call>>

vars == <<leaves, merkle, indexes, proof, origin, proofRoot, nidx,
          pool, db, tree, pc, batch, inserted, ncalls, result, utm, rd, it,
          lock, call>>

None == <<>>

Some(x) == <<x>>

IsSome(o) == o # <<>>

Unwrap(o) == o[1]

(***************************************************************************)
(* Bounds                                                                  *)
(***************************************************************************)
MaxLeaves == 6

MaxForge == 2

LeafVals == {1, 2}

(***************************************************************************)
(* Merge: the hash of two items.  Items are sequences of integers; a leaf  *)
(* of value v is <<v>> and a merged node is the prefix term <<0>> l r, so   *)
(* that Merge is injective and not commutative, like a hash without        *)
(* collisions.                                                             *)
(***************************************************************************)
Leaf(v) == <<v>>

Merge(left, right) == <<0>> \o left \o right

LeafItems == {Leaf(v) : v \in LeafVals}

(***************************************************************************)
(* NodeIndex for usize                                                     *)
(***************************************************************************)
sibling(i) == LET j == i + 1 IN (IF j % 2 = 0 THEN j + 1 ELSE j - 1) - 1

\* the index halved where the code halves the index less one
parent_of_next(i) == i \div 2

parent(i) == (i - 1) \div 2

is_left_swapped(i) == i % 2 = 0

is_left(i) == i % 2 = 1

(***************************************************************************)
(* Tree::new and Tree::build_root                                          *)
(***************************************************************************)
RECURSIVE NodeAt(_, _)
NodeAt(L, i) ==
    LET n == Len(L) IN
    IF i >= n - 1 THEN L[i - (n - 1) + 1]
    ELSE Merge(NodeAt(L, 2 * i + 1), NodeAt(L, 2 * i + 2))

TreeNew(L) ==
    IF Len(L) = 0 THEN <<>>
    ELSE [i \in 1..(2 * Len(L) - 1) |-> NodeAt(L, i - 1)]

build_root(L) == IF Len(L) = 0 THEN None ELSE Some(TreeNew(L)[1])

(***************************************************************************)
(* Sequence helpers                                                        *)
(***************************************************************************)
\* a sequence left in its order where the code reverses it
Unreversed(s) == s

Reverse(s) == [i \in 1..Len(s) |-> s[Len(s) + 1 - i]]

\* the first element taken where the code takes the last
FirstOf(s) == s[1]

Last(s) == s[Len(s)]

RECURSIVE SortedSeq(_)
SortedSeq(S) ==
    IF S = {} THEN <<>>
    ELSE LET m == CHOOSE x \in S : \A y \in S : x <= y
         IN <<m>> \o SortedSeq(S \ {m})

SeqsUpTo(S, n) == UNION {[1..k -> S] : k \in 0..n}

(***************************************************************************)
(* Tree::get_proof                                                         *)
(***************************************************************************)
\* the while loop of get_proof: the lemmas collected from the queue
RECURSIVE ProofLoop(_, _, _)
ProofLoop(nodes, queue, lemmas) ==
    IF queue = <<>> THEN lemmas
    ELSE LET index == Head(queue)
             rest == Tail(queue)
         IN IF index = 0 THEN lemmas
            ELSE IF rest # <<>> /\ Head(rest) = sibling(index)
                 THEN ProofLoop(nodes, Append(Tail(rest), parent(index)), lemmas)
                 ELSE ProofLoop(nodes, Append(rest, parent(index)),
                                Append(lemmas, nodes[sibling(index) + 1]))

LeavesCountOf(nodes) == (Len(nodes) \div 2) + 1

\* get_proof indexes self.nodes out of bounds (a panic) when an index other
\* than the last is >= leaves_count
get_proof_panics(nodes, leaf_indexes) ==
    LET leaves_count == LeavesCountOf(nodes) IN
    /\ nodes # <<>>
    /\ leaf_indexes # <<>>
    /\ Last(leaf_indexes) < leaves_count
    /\ \E k \in 1..Len(leaf_indexes) : leaves_count + leaf_indexes[k] - 1 >= Len(nodes)

get_proof(nodes, leaf_indexes) ==
    LET leaves_count == LeavesCountOf(nodes) IN
    IF nodes = <<>> \/ leaf_indexes = <<>> \/ Last(leaf_indexes) >= leaves_count
    THEN None
    ELSE LET lvs == [k \in 1..Len(leaf_indexes) |->
                        <<leaf_indexes[k], nodes[leaves_count + leaf_indexes[k] - 1 + 1]>>]
             queue == [k \in 1..Len(leaf_indexes) |->
                        leaves_count + Reverse(leaf_indexes)[k] - 1]
         IN Some([leaves |-> lvs,
                  lemmas |-> ProofLoop(nodes, queue, <<>>),
                  leaves_count |-> leaves_count])

(***************************************************************************)
(* Proof::root                                                             *)
(***************************************************************************)
\* The while loop of root.  res is what root returns; used counts the
\* lemmas taken from lemmas_iter and starved says that lemmas_iter.next()
\* came back empty when a sibling was needed (both are history of the run).
RECURSIVE RootLoop(_, _, _, _)
RootLoop(queue, lemmas, used, starved) ==
    IF queue = <<>> THEN [res |-> None, used |-> used, starved |-> starved]
    ELSE LET index == Head(queue)[1]
             node == Head(queue)[2]
             rest == Tail(queue)
         IN IF index = 0
            THEN [res |-> IF used >= Len(lemmas) /\ rest = <<>> THEN Some(node) ELSE None,
                  used |-> used, starved |-> starved]
            ELSE IF rest # <<>> /\ Head(rest)[1] = sibling(index)
                 THEN LET sib == Head(rest)[2]
                          parent_node == IF is_left(index) THEN Merge(node, sib)
                                         ELSE Merge(sib, node)
                      IN RootLoop(Append(Tail(rest), <<parent(index), parent_node>>),
                                  lemmas, used, starved)
                 ELSE IF used < Len(lemmas)
                      THEN LET sib == lemmas[used + 1]
                               parent_node == IF is_left(index) THEN Merge(node, sib)
                                              ELSE Merge(sib, node)
                           IN RootLoop(Append(rest, <<parent(index), parent_node>>),
                                       lemmas, used + 1, starved)
                      ELSE RootLoop(rest, lemmas, used, TRUE)

RootRun(p) ==
    IF p.leaves_count = 0
    THEN [res |-> None, used |-> 0, starved |-> FALSE]
    ELSE LET rl == Reverse(p.leaves)
             queue == [k \in 1..Len(rl) |-> <<p.leaves_count + rl[k][1] - 1, rl[k][2]>>]
         IN RootLoop(queue, p.lemmas, 0, FALSE)

root(p) == RootRun(p).res

(***************************************************************************)
(* Data of the store.  Hashes are small integers; the header of a hash is  *)
(* fixed, as the hash of a block is the hash of its header.  Header 4 is   *)
(* numbered 2 although its parent is the genesis header: the store does    *)
(* not validate what it is given.                                          *)
(***************************************************************************)
ZeroHash == 0

Hashes == 1..4

BlockHashes == 1..2

ParentOf(h) == IF h = 4 THEN 1 ELSE h - 1

NumberOf(h) == IF h = 4 THEN 2 ELSE h - 1

IndexedHeader(h) == [hash |-> h, number |-> NumberOf(h), parent_hash |-> ParentOf(h)]

Txs == {1, 2}

MaxTxs == 2

TxHash(t) == t + 10

IndexedTransaction(t, id) == [transaction |-> t, hash |-> id]

Bodies == SeqsUpTo({IndexedTransaction(t, TxHash(t)) : t \in Txs}, MaxTxs)

UncleLists == SeqsUpTo({1}, 1)

ProposalLists == SeqsUpTo({1}, 1)

BlocksOf(hs) ==
    [header : {IndexedHeader(h) : h \in hs},
     commit_transactions : Bodies,
     uncles : UncleLists,
     proposal_transactions : ProposalLists]

\* a block of header h with no transactions, uncles or proposals
BareBlock(h) ==
    [header |-> IndexedHeader(h), commit_transactions |-> <<>>,
     uncles |-> <<>>, proposal_transactions |-> <<>>]

Exts ==
    {[received_at |-> 1, total_difficulty |-> 1, total_uncles_count |-> 0],
     [received_at |-> 2, total_difficulty |-> 2, total_uncles_count |-> 1]}

Roots == {1, 2}

(***************************************************************************)
(* bincode serialize / deserialize, as sequences of integers: a struct is  *)
(* the sequence of its fields, a Vec is its length and then its elements.  *)
(***************************************************************************)
RECURSIVE Concat(_)
Concat(ss) == IF ss = <<>> THEN <<>> ELSE Head(ss) \o Concat(Tail(ss))

SerializeHeader(hd) == <<hd.number, hd.parent_hash>>

DeserializeHeader(raw) == [number |-> raw[1], parent_hash |-> raw[2]]

SerializeVec(v) == <<Len(v)>> \o v

DeserializeVec(raw) == SubSeq(raw, 2, raw[1] + 1)

SerializeAddresses(as) ==
    <<Len(as)>> \o Concat([k \in 1..Len(as) |-> <<as[k].offset, as[k].length>>])

DeserializeAddresses(raw) ==
    [k \in 1..raw[1] |-> [offset |-> raw[2 * k], length |-> raw[2 * k + 1]]]

SerializeExt(e) == <<e.received_at, e.total_difficulty, e.total_uncles_count>>

DeserializeExt(raw) ==
    [received_at |-> raw[1], total_difficulty |-> raw[2], total_uncles_count |-> raw[3]]

\* a transaction t is t bytes of value t; other bytes decode to nothing
SerializeTx(t) == [i \in 1..t |-> t]

DeserializeTx(raw) ==
    IF Len(raw) >= 1 /\ raw[1] \in Txs /\ raw = SerializeTx(raw[1])
    THEN Some(raw[1]) ELSE None

\* H256::to_vec and H256::from(&raw[..]): two big-endian digits
HashToVec(h) == <<h \div 4, h % 4>>

HashFromSlice(raw) == raw[1] * 4 + raw[2]

(***************************************************************************)
(* flat_serializer                                                         *)
(***************************************************************************)
\* serialize: the blob and one Address per record, in input order
flat_serialize(txs) ==
    LET enc == [k \in 1..Len(txs) |-> SerializeTx(txs[k])]
    IN [blob |-> Concat(enc),
        addresses |-> [k \in 1..Len(txs) |->
                          [offset |-> Len(Concat(SubSeq(enc, 1, k - 1))),
                           length |-> Len(enc[k])]]]

\* deserialize: each record decoded from its slice; None is the Err that
\* the caller unwraps
flat_deserialize(blob, addresses) ==
    LET slice(a) == IF a.offset + a.length <= Len(blob)
                    THEN DeserializeTx(SubSeq(blob, a.offset + 1, a.offset + a.length))
                    ELSE None
    IN IF \E k \in 1..Len(addresses) : slice(addresses[k]) = None
       THEN None
       ELSE Some([k \in 1..Len(addresses) |-> Unwrap(slice(addresses[k]))])

(***************************************************************************)
(* KeyValueDB and Batch: a map per column, and a list of insertions that   *)
(* write applies in order, all at once.  The column TRANSACTION_META holds *)
(* tree nodes under their own hashes, so it is the set of what was put.    *)
(***************************************************************************)
HashColumns ==
    {"BLOCK_HEADER", "BLOCK_BODY", "BLOCK_UNCLE", "BLOCK_PROPOSAL_IDS",
     "BLOCK_TRANSACTION_IDS", "BLOCK_TRANSACTION_ADDRESSES", "EXT", "OUTPUT_ROOT"}

EmptyColumn == [h \in Hashes |-> None]

EmptyDb ==
    [BLOCK_HEADER |-> EmptyColumn, BLOCK_BODY |-> EmptyColumn,
     BLOCK_UNCLE |-> EmptyColumn, BLOCK_PROPOSAL_IDS |-> EmptyColumn,
     BLOCK_TRANSACTION_IDS |-> EmptyColumn,
     BLOCK_TRANSACTION_ADDRESSES |-> EmptyColumn,
     EXT |-> EmptyColumn, OUTPUT_ROOT |-> EmptyColumn,
     TRANSACTION_META |-> {}]

Insertion(col, key, value) == [col |-> col, key |-> key, value |-> value]

BatchInsert(b, col, key, value) == Append(b, Insertion(col, key, value))

ApplyInsertion(d, e) ==
    IF e.col = "TRANSACTION_META"
    THEN [d EXCEPT !.TRANSACTION_META = @ \cup {e.value}]
    ELSE [d EXCEPT ![e.col][e.key] = Some(e.value)]

RECURSIVE DbWrite(_, _)
DbWrite(d, b) == IF b = <<>> THEN d ELSE DbWrite(ApplyInsertion(d, Head(b)), Tail(b))

\* ChainKVStore::get
Get(d, col, key) == d[col][key]

(***************************************************************************)
(* ChainKVStore: the writers that fill a batch                             *)
(***************************************************************************)
\* the block written without its uncles
insert_block_without_uncles(b, blk) ==
    LET hash == blk.header.hash
        txs_ids == [k \in 1..Len(blk.commit_transactions) |->
                        blk.commit_transactions[k].hash]
        flat == flat_serialize([k \in 1..Len(blk.commit_transactions) |->
                                    blk.commit_transactions[k].transaction])
        b1 == BatchInsert(b, "BLOCK_HEADER", hash, SerializeHeader(blk.header))
        b2 == BatchInsert(b1, "BLOCK_TRANSACTION_IDS", hash, SerializeVec(txs_ids))
        b4 == BatchInsert(b2, "BLOCK_BODY", hash, flat.blob)
        b5 == BatchInsert(b4, "BLOCK_PROPOSAL_IDS", hash,
                          SerializeVec(blk.proposal_transactions))
    IN BatchInsert(b5, "BLOCK_TRANSACTION_ADDRESSES", hash,
                   SerializeAddresses(flat.addresses))

insert_block(b, blk) ==
    LET hash == blk.header.hash
        txs_ids == [k \in 1..Len(blk.commit_transactions) |->
                        blk.commit_transactions[k].hash]
        flat == flat_serialize([k \in 1..Len(blk.commit_transactions) |->
                                    blk.commit_transactions[k].transaction])
        b1 == BatchInsert(b, "BLOCK_HEADER", hash, SerializeHeader(blk.header))
        b2 == BatchInsert(b1, "BLOCK_TRANSACTION_IDS", hash, SerializeVec(txs_ids))
        b3 == BatchInsert(b2, "BLOCK_UNCLE", hash, SerializeVec(blk.uncles))
        b4 == BatchInsert(b3, "BLOCK_BODY", hash, flat.blob)
        b5 == BatchInsert(b4, "BLOCK_PROPOSAL_IDS", hash,
                          SerializeVec(blk.proposal_transactions))
    IN BatchInsert(b5, "BLOCK_TRANSACTION_ADDRESSES", hash,
                   SerializeAddresses(flat.addresses))

insert_block_ext(b, block_hash, ext) ==
    BatchInsert(b, "EXT", block_hash, SerializeExt(ext))

insert_output_root(b, block_hash, r) ==
    BatchInsert(b, "OUTPUT_ROOT", block_hash, HashToVec(r))

(***************************************************************************)
(* ChainKVStore: the readers, on the columns d                             *)
(***************************************************************************)
get_header(d, h) ==
    LET raw == Get(d, "BLOCK_HEADER", h)
    IN IF raw = None THEN None
       ELSE LET hd == DeserializeHeader(Unwrap(raw))
            IN Some([hash |-> h, number |-> hd.number, parent_hash |-> hd.parent_hash])

get_block_uncles(d, h) ==
    LET raw == Get(d, "BLOCK_UNCLE", h)
    IN IF raw = None THEN None ELSE Some(DeserializeVec(Unwrap(raw)))

get_block_proposal_txs_ids(d, h) ==
    LET raw == Get(d, "BLOCK_PROPOSAL_IDS", h)
    IN IF raw = None THEN None ELSE Some(DeserializeVec(Unwrap(raw)))

\* txs.into_iter().zip(txs_ids.into_iter()): as long as the shorter one
Zip(txs, ids) ==
    LET n == IF Len(txs) < Len(ids) THEN Len(txs) ELSE Len(ids)
    IN [k \in 1..n |-> IndexedTransaction(txs[k], ids[k])]

\* get_block_body panics when flat_deserialize(..).unwrap() meets an Err
get_block_body_panics(d, h) ==
    LET sa == Get(d, "BLOCK_TRANSACTION_ADDRESSES", h)
        sb == Get(d, "BLOCK_BODY", h)
    IN /\ sa # None
       /\ sb # None
       /\ flat_deserialize(Unwrap(sb), DeserializeAddresses(Unwrap(sa))) = None

get_block_body(d, h) ==
    LET sa == Get(d, "BLOCK_TRANSACTION_ADDRESSES", h)
        sb == Get(d, "BLOCK_BODY", h)
        si == Get(d, "BLOCK_TRANSACTION_IDS", h)
    IN IF sa = None \/ sb = None \/ si = None THEN None
       ELSE LET addresses == DeserializeAddresses(Unwrap(sa))
                txs == Unwrap(flat_deserialize(Unwrap(sb), addresses))
                txs_ids == DeserializeVec(Unwrap(si))
            IN Some(Zip(txs, txs_ids))

\* how get_block ends: "no" panic, the unwrap of a decode error, or one of
\* the expect("... must be stored")
get_block_panics(d, h) ==
    IF get_header(d, h) = None THEN "no"
    ELSE IF get_block_body_panics(d, h) THEN "decode"
    ELSE IF \/ get_block_body(d, h) = None
            \/ get_block_uncles(d, h) = None
            \/ get_block_proposal_txs_ids(d, h) = None
         THEN "must be stored"
         ELSE "no"

get_block(d, h) ==
    LET header == get_header(d, h)
    IN IF header = None THEN None
       ELSE Some([header |-> Unwrap(header),
                  commit_transactions |-> Unwrap(get_block_body(d, h)),
                  uncles |-> Unwrap(get_block_uncles(d, h)),
                  proposal_transactions |-> Unwrap(get_block_proposal_txs_ids(d, h))])

\* the ext given only for a hash whose header is stored
get_block_ext_needs_header(d, block_hash) ==
    LET raw == Get(d, "EXT", block_hash)
    IN IF raw = None \/ Get(d, "BLOCK_HEADER", block_hash) = None THEN None
       ELSE Some(DeserializeExt(Unwrap(raw)))

get_block_ext(d, block_hash) ==
    LET raw == Get(d, "EXT", block_hash)
    IN IF raw = None THEN None ELSE Some(DeserializeExt(Unwrap(raw)))

get_output_root(d, block_hash) ==
    LET raw == Get(d, "OUTPUT_ROOT", block_hash)
    IN IF raw = None THEN None ELSE Some(HashFromSlice(Unwrap(raw)))


(***************************************************************************)
(* TransactionMeta and the AvlTree.  A tree is the map from transaction    *)
(* ids to metas that it holds; the hash of a root is the map itself (node  *)
(* hashes identify the subtree they stand for), H256::zero() the empty     *)
(* map.  A tree object has the root it was opened at or last committed,    *)
(* and the contents it holds in memory.                                    *)
(***************************************************************************)
MetaKeys == {1, 2}

MaxOutputs == 2

MaxInputs == 2

MaxDeltas == 1

OutPoints == [hash : MetaKeys, index : 0..(MaxOutputs - 1)]

\* the outputs of transaction k, n of them
OutputsOf(k, n) == [i \in 1..n |-> [hash |-> k, index |-> i - 1]]

\* TransactionMeta::new(len): every output live
TransactionMetaNew(len) == [i \in 1..len |-> TRUE]

EmptyTree == [k \in MetaKeys |-> None]

AvlNew(r) == [root |-> r, cur |-> r]

AvlRootHash(t) == IF t.root = EmptyTree THEN None ELSE Some(t.root)

AvlGet(t, key) == t.cur[key]

\* insert: binds key, returns the previous binding
AvlInsert(t, key, value) ==
    [tree |-> [t EXCEPT !.cur[key] = Some(value)], prev |-> t.cur[key]]

\* update: clears bit index of the meta at key; false when the key is
\* absent or the bit is not set
AvlUpdate(t, key, index) ==
    LET m == t.cur[key]
    IN IF m = None \/ index + 1 > Len(Unwrap(m)) \/ ~Unwrap(m)[index + 1]
       THEN [tree |-> t, ok |-> FALSE]
       ELSE [tree |-> [t EXCEPT !.cur[key] = Some([Unwrap(m) EXCEPT ![index + 1] = FALSE])],
             ok |-> TRUE]

\* commit: the new nodes go to the batch, the root moves to the contents
AvlCommit(t, b) ==
    [tree |-> [t EXCEPT !.root = t.cur],
     batch |-> IF t.cur = t.root THEN b
               ELSE BatchInsert(b, "TRANSACTION_META", t.cur, t.cur),
     root |-> t.cur]

AvlReconstruct(t, r) == AvlNew(r)

\* avl::node::search: the binding of key in the tree stored at root
Search(d, r, key) == r[key]

(***************************************************************************)
(* ChainKVStore::update_transaction_meta                                   *)
(***************************************************************************)
\* for input in inputs: the tree after the updates, and whether all were true
RECURSIVE SpendInputs(_, _)
SpendInputs(t, inputs) ==
    IF inputs = <<>> THEN [tree |-> t, ok |-> TRUE]
    ELSE LET u == AvlUpdate(t, Head(inputs).hash, Head(inputs).index)
         IN IF ~u.ok THEN [tree |-> u.tree, ok |-> FALSE]
            ELSE SpendInputs(u.tree, Tail(inputs))

\* the deltas applied with the outputs of each inserted before its inputs
\* are spent
RECURSIVE ApplyCellsOutputsFirst(_, _)
ApplyCellsOutputsFirst(t, cells) ==
    IF cells = <<>> THEN [tree |-> t, ok |-> TRUE]
    ELSE LET inputs == Head(cells)[1]
             outputs == Head(cells)[2]
             ins == IF Len(outputs) # 0
                    THEN AvlInsert(t, outputs[1].hash, TransactionMetaNew(Len(outputs)))
                    ELSE [tree |-> t, prev |-> None]
         IN IF ins.prev # None THEN [tree |-> ins.tree, ok |-> FALSE]
            ELSE LET s == SpendInputs(ins.tree, inputs)
                 IN IF ~s.ok THEN [tree |-> s.tree, ok |-> FALSE]
                    ELSE ApplyCellsOutputsFirst(s.tree, Tail(cells))

\* for (inputs, outputs) in cells
RECURSIVE ApplyCells(_, _)
ApplyCells(t, cells) ==
    IF cells = <<>> THEN [tree |-> t, ok |-> TRUE]
    ELSE LET inputs == Head(cells)[1]
             outputs == Head(cells)[2]
             s == SpendInputs(t, inputs)
         IN IF ~s.ok THEN [tree |-> s.tree, ok |-> FALSE]
            ELSE IF Len(outputs) # 0
                 THEN LET ins == AvlInsert(s.tree, outputs[1].hash,
                                           TransactionMetaNew(Len(outputs)))
                      IN IF ins.prev # None THEN [tree |-> ins.tree, ok |-> FALSE]
                         ELSE ApplyCells(ins.tree, Tail(cells))
                 ELSE ApplyCells(s.tree, Tail(cells))

\* the cells applied to the cached tree c where the code applies them to
\* the tree it opened
update_on_shared_tree(cached, c, b, r, cells) ==
    LET avl == IF cached THEN c ELSE AvlNew(r)
        a == ApplyCells(avl, cells)
    IN IF ~a.ok
       THEN [ret |-> None, tree |-> a.tree, batch |-> b]
       ELSE LET m == AvlCommit(a.tree, b)
            IN [ret |-> Some(m.root), tree |-> m.tree, batch |-> m.batch]

\* the tree committed to the batch also when the loop has failed
update_committing_failures(cached, c, b, r, cells) ==
    LET avl == IF cached THEN c ELSE AvlNew(r)
        a == ApplyCells(avl, cells)
        m == AvlCommit(a.tree, b)
    IN [ret |-> IF a.ok THEN Some(m.root) ELSE None,
        tree |-> IF cached THEN m.tree ELSE c,
        batch |-> m.batch]

\* the loop and the commit on the tree chosen: the cached tree c when the
\* call found it at r (cached), else a tree opened at r.  What the call
\* returns, the cached tree and the batch after it
update_on_path(cached, c, b, r, cells) ==
    LET avl == IF cached THEN c ELSE AvlNew(r)
        a == ApplyCells(avl, cells)
    IN IF ~a.ok
       THEN [ret |-> None, tree |-> IF cached THEN a.tree ELSE c, batch |-> b]
       ELSE LET m == AvlCommit(a.tree, b)
            IN [ret |-> Some(m.root), tree |-> IF cached THEN m.tree ELSE c,
                batch |-> m.batch]

\* the call on the cached tree c with batch b: what it returns, the cached
\* tree and the batch after it
update_transaction_meta(c, b, r, cells) ==
    update_on_path(AvlRootHash(c) = Some(r), c, b, r, cells)

\* get_transaction_meta: from the cached tree when it is at root, else
\* searched in the column
get_transaction_meta(c, d, r, key) ==
    IF AvlRootHash(c) = Some(r) THEN AvlGet(c, key) ELSE Search(d, r, key)

\* the roots a tree can be opened at: the empty one and the stored ones
StoredRoots(d) == {EmptyTree} \cup d.TRANSACTION_META

\* the deltas (inputs, outputs) of at most ni inputs
DeltasOf(ni) ==
    SeqsUpTo(OutPoints, ni)
        \X ({<<>>} \cup {OutputsOf(k, MaxOutputs) : k \in MetaKeys})

\* the cells of at most nd deltas of at most ni inputs each
CellListsOf(nd, ni) == SeqsUpTo(DeltasOf(ni), nd)


(***************************************************************************)
(* The store machine.  A thread is idle or inside the closure f of its     *)
(* save_with_batch call, where it fills its own batch; the call ends with  *)
(* the batch written, with the error of f, or with the error of db.write.  *)
(***************************************************************************)
Threads == {1, 2}

MaxOps == 2

MaxRoots == 2

\* no call on the tree under way
NoCall == [op |-> "none", stage |-> "none", root |-> EmptyTree, cells |-> <<>>,
           key |-> 0, cached |-> FALSE, ret |-> None]

IdleReader == [pc |-> "idle", h |-> ZeroHash, step |-> 0, view |-> EmptyDb,
               ret |-> None]

NoIterator ==
    [started |-> FALSE, start |-> None, complete |-> FALSE, head |-> None,
     yielded |-> <<>>, last |-> None, after |-> 0]

\* ChainKVStore::new on an empty database, callers holding the blocks p
InitStore(p) ==
    /\ pool = p
    /\ db = EmptyDb
    /\ tree = AvlNew(EmptyTree)
    /\ pc = [t \in Threads |-> "idle"]
    /\ batch = [t \in Threads |-> <<>>]
    /\ inserted = [t \in Threads |-> <<>>]
    /\ ncalls = [t \in Threads |-> 0]
    /\ result = [t \in Threads |-> "none"]
    /\ utm = None
    /\ lock = 0
    /\ call = [t \in Threads |-> NoCall]
    /\ rd = IdleReader
    /\ it = NoIterator

\* save_with_batch: let mut batch = Batch::new(), then f(&mut batch) runs
SaveWithBatch(t) ==
    /\ pc[t] = "idle"
    /\ pc' = [pc EXCEPT ![t] = "closure"]
    /\ batch' = [batch EXCEPT ![t] = <<>>]
    /\ inserted' = [inserted EXCEPT ![t] = <<>>]
    /\ ncalls' = [ncalls EXCEPT ![t] = 0]
    /\ result' = [result EXCEPT ![t] = "none"]
    /\ UNCHANGED <<merkleVars, lockVars, pool, db, tree, utm, rd, it>>

\* f calls insert_block(batch, b)
InsertBlock(t, blk) ==
    /\ pc[t] = "closure"
    /\ ncalls[t] < MaxOps
    /\ batch' = [batch EXCEPT ![t] = insert_block(@, blk)]
    /\ inserted' = [inserted EXCEPT ![t] = Append(@, blk)]
    /\ ncalls' = [ncalls EXCEPT ![t] = @ + 1]
    /\ UNCHANGED <<merkleVars, lockVars, pool, db, tree, pc, result, utm, rd, it>>

\* f calls insert_block_ext(batch, block_hash, ext)
InsertBlockExt(t, block_hash, ext) ==
    /\ pc[t] = "closure"
    /\ ncalls[t] < MaxOps
    /\ batch' = [batch EXCEPT ![t] = insert_block_ext(@, block_hash, ext)]
    /\ ncalls' = [ncalls EXCEPT ![t] = @ + 1]
    /\ UNCHANGED <<merkleVars, lockVars, pool, db, tree, pc, inserted, result, utm, rd, it>>

\* f calls insert_output_root(batch, block_hash, r)
InsertOutputRoot(t, block_hash, r) ==
    /\ pc[t] = "closure"
    /\ ncalls[t] < MaxOps
    /\ batch' = [batch EXCEPT ![t] = insert_output_root(@, block_hash, r)]
    /\ ncalls' = [ncalls EXCEPT ![t] = @ + 1]
    /\ UNCHANGED <<merkleVars, lockVars, pool, db, tree, pc, inserted, result, utm, rd, it>>

\* f calls update_transaction_meta(batch, root, cells), at a root whose
\* nodes the tree can load: a stored one, or the one the cached tree is at
UpdateTransactionMeta(t, r, cells) ==
    /\ pc[t] = "closure"
    /\ ncalls[t] < MaxOps
    /\ r \in StoredRoots(db) \/ AvlRootHash(tree) = Some(r)
    /\ LET u == update_transaction_meta(tree, batch[t], r, cells)
       IN /\ tree' = u.tree
          /\ batch' = [batch EXCEPT ![t] = u.batch]
          /\ utm' = Some([root |-> r, cells |-> cells, ret |-> u.ret,
                          cached |-> AvlRootHash(tree) = Some(r),
                          before |-> batch[t],
                          pre |-> [k \in MetaKeys |->
                                     get_transaction_meta(tree, db, r, k)]])
    /\ ncalls' = [ncalls EXCEPT ![t] = @ + 1]
    /\ UNCHANGED <<merkleVars, lockVars, pool, db, pc, inserted, result, rd, it>>

\* rebuild_tree(r)
RebuildTree(r) ==
    /\ r \in StoredRoots(db)
    /\ tree' = AvlReconstruct(tree, r)
    /\ tree' # tree
    /\ UNCHANGED <<merkleVars, lockVars, pool, db, pc, batch, inserted, ncalls, result, utm, rd, it>>

\* f returned Ok(()) and self.db.write(batch) succeeded
WriteOk(t) ==
    /\ pc[t] = "closure"
    /\ Cardinality(DbWrite(db, batch[t]).TRANSACTION_META) <= MaxRoots
    /\ db' = DbWrite(db, batch[t])
    /\ pc' = [pc EXCEPT ![t] = "idle"]
    /\ result' = [result EXCEPT ![t] = "Ok"]
    /\ UNCHANGED <<merkleVars, lockVars, pool, tree, batch, inserted, ncalls, utm, rd, it>>

\* f returned Ok(()) and self.db.write(batch) returned an error
WriteErr(t) ==
    /\ pc[t] = "closure"
    /\ pc' = [pc EXCEPT ![t] = "idle"]
    /\ result' = [result EXCEPT ![t] = "Err(write)"]
    /\ UNCHANGED <<merkleVars, lockVars, pool, db, tree, batch, inserted, ncalls, utm, rd, it>>

\* the batch written although f returned Err(e)
ClosureErrWrites(t) ==
    /\ pc[t] = "closure"
    /\ db' = DbWrite(db, batch[t])
    /\ pc' = [pc EXCEPT ![t] = "idle"]
    /\ result' = [result EXCEPT ![t] = "Err(f)"]
    /\ UNCHANGED <<merkleVars, lockVars, pool, tree, batch, inserted, ncalls, utm, rd, it>>

\* f returned Err(e): f(&mut batch)? returns it before anything is written
ClosureErr(t) ==
    /\ pc[t] = "closure"
    /\ pc' = [pc EXCEPT ![t] = "idle"]
    /\ result' = [result EXCEPT ![t] = "Err(f)"]
    /\ UNCHANGED <<merkleVars, lockVars, pool, db, tree, batch, inserted, ncalls, utm, rd, it>>

(***************************************************************************)
(* get_block(h), one column read at a time, in the order of the code:      *)
(* get_header, then get_block_body (addresses, body, ids), get_block_uncles*)
(* and get_block_proposal_txs_ids.                                         *)
(***************************************************************************)
ReadOrder ==
    <<"BLOCK_HEADER", "BLOCK_TRANSACTION_ADDRESSES", "BLOCK_BODY",
      "BLOCK_TRANSACTION_IDS", "BLOCK_UNCLE", "BLOCK_PROPOSAL_IDS">>

\* the reader calls get_block(h)
GetBlockCall(h) ==
    /\ rd.pc \in {"idle", "done"}
    /\ rd' = [IdleReader EXCEPT !.pc = "reading", !.h = h]
    /\ UNCHANGED <<merkleVars, lockVars, pool, db, tree, pc, batch, inserted, ncalls, result, utm, it>>

\* the next self.get(col, h) of get_block and what follows from it
GetBlockRead ==
    /\ rd.pc = "reading"
    /\ LET col == ReadOrder[rd.step + 1]
           raw == Get(db, col, rd.h)
           view == [rd.view EXCEPT ![col][rd.h] = raw]
           at == [rd EXCEPT !.view = view, !.step = @ + 1]
       IN rd' = IF raw = None
                THEN IF rd.step = 0
                     THEN [at EXCEPT !.pc = "done", !.ret = None]
                     ELSE [at EXCEPT !.pc = "panic: must be stored"]
                ELSE IF col = "BLOCK_BODY" /\ get_block_body_panics(view, rd.h)
                     THEN [at EXCEPT !.pc = "panic: decode"]
                     ELSE IF rd.step + 1 = Len(ReadOrder)
                          THEN [at EXCEPT !.pc = "done", !.ret = get_block(view, rd.h)]
                          ELSE at
    /\ UNCHANGED <<merkleVars, lockVars, pool, db, tree, pc, batch, inserted, ncalls, result, utm, it>>

(***************************************************************************)
(* headers_iter and ChainStoreHeaderIterator::next                         *)
(***************************************************************************)
MaxAfter == 2

\* every ancestor of hd down to height 0 is stored, numbered one less than
\* its child
RECURSIVE ChainComplete(_, _)
ChainComplete(d, hd) ==
    \/ hd.number = 0
    \/ /\ hd.number > 0
       /\ get_header(d, hd.parent_hash) # None
       /\ Unwrap(get_header(d, hd.parent_hash)).number = hd.number - 1
       /\ ChainComplete(d, Unwrap(get_header(d, hd.parent_hash)))

\* store.headers_iter(head)
HeadersIter(hd) ==
    /\ ~it.started
    /\ it' = [NoIterator EXCEPT !.started = TRUE, !.start = Some(hd),
                                !.complete = ChainComplete(db, hd),
                                !.head = Some(hd)]
    /\ UNCHANGED <<merkleVars, lockVars, pool, db, tree, pc, batch, inserted, ncalls, result, utm, rd>>

\* the head after next(): the parent's header while the height is above 0
next_head_stops_early(d, current) ==
    IF current = None THEN None
    ELSE IF Unwrap(current).number > 1
         THEN get_header(d, Unwrap(current).parent_hash)
         ELSE None

next_head(d, current) ==
    IF current = None THEN None
    ELSE IF Unwrap(current).number > 0
         THEN get_header(d, Unwrap(current).parent_hash)
         ELSE None

\* iterator.next(): returns the head it took
IteratorNext ==
    /\ it.started
    /\ it.head = None => it.after < MaxAfter
    /\ it' = [it EXCEPT !.head = next_head(db, it.head),
                        !.yielded = IF it.head = None THEN @ ELSE Append(@, Unwrap(it.head)),
                        !.last = Some(it.head),
                        !.after = IF it.head = None THEN @ + 1 ELSE @]
    /\ UNCHANGED <<merkleVars, lockVars, pool, db, tree, pc, batch, inserted, ncalls, result, utm, rd>>


(***************************************************************************)
(* The proof machine: build a tree, derive a proof or make one by hand     *)
(* (the fields of Proof are public), tamper with its lemmas, verify it.    *)
(***************************************************************************)
LeafLists == SeqsUpTo(LeafItems, MaxLeaves)

IndexLists ==
    {SortedSeq(S) : S \in SUBSET (0..MaxLeaves)} \cup SeqsUpTo(0..MaxLeaves, 2)

ForgedProofs ==
    [leaves : SeqsUpTo((0..(MaxForge + 1)) \X LeafItems, 2),
     lemmas : SeqsUpTo(LeafItems, MaxForge),
     leaves_count : 0..MaxForge]

\* no node index at hand
NoNode == [i |-> 0, s |-> None, p |-> None, l |-> None,
           ss |-> None, ps |-> None, ls |-> None]

IdleMerkle ==
    /\ nidx = NoNode
    /\ leaves = <<>>
    /\ merkle = <<>>
    /\ indexes = <<>>
    /\ proof = None
    /\ origin = "none"
    /\ proofRoot = None

\* Tree::new(leaves)
TreeBuild(L) ==
    /\ origin = "none"
    /\ leaves = <<>>
    /\ leaves' = L
    /\ merkle' = TreeNew(L)
    /\ UNCHANGED <<indexes, proof, origin, proofRoot, nidx, storeVars>>

\* tree.get_proof(leaf_indexes)
GetProof(idx) ==
    /\ origin = "none"
    /\ ~get_proof_panics(merkle, idx)
    /\ indexes' = idx
    /\ proof' = get_proof(merkle, idx)
    /\ origin' = "get_proof"
    /\ UNCHANGED <<leaves, merkle, proofRoot, nidx, storeVars>>

\* tree.get_proof(leaf_indexes) that panics on an out-of-bounds node index
GetProofPanic(idx) ==
    /\ origin = "none"
    /\ get_proof_panics(merkle, idx)
    /\ indexes' = idx
    /\ origin' = "panic"
    /\ UNCHANGED <<leaves, merkle, proof, proofRoot, nidx, storeVars>>

\* Proof { leaves, lemmas, leaves_count } written by hand
ForgeProof(p) ==
    /\ origin = "none"
    /\ leaves = <<>>
    /\ proof' = Some(p)
    /\ origin' = "forged"
    /\ UNCHANGED <<leaves, merkle, indexes, proofRoot, nidx, storeVars>>

\* one more lemma pushed on a derived proof
ExtraLemma(x) ==
    /\ origin = "get_proof"
    /\ IsSome(proof)
    /\ proofRoot = None
    /\ proof' = Some([Unwrap(proof) EXCEPT !.lemmas = Append(@, x)])
    /\ origin' = "extra"
    /\ UNCHANGED <<leaves, merkle, indexes, proofRoot, nidx, storeVars>>

\* one lemma removed from a derived proof
MissingLemma(k) ==
    /\ origin = "get_proof"
    /\ IsSome(proof)
    /\ proofRoot = None
    /\ k \in 1..Len(Unwrap(proof).lemmas)
    /\ proof' = Some([Unwrap(proof) EXCEPT
                        !.lemmas = SubSeq(@, 1, k - 1) \o SubSeq(@, k + 1, Len(@))])
    /\ origin' = "missing"
    /\ UNCHANGED <<leaves, merkle, indexes, proofRoot, nidx, storeVars>>

\* proof.root()
ProofRoot ==
    /\ IsSome(proof)
    /\ proofRoot = None
    /\ proofRoot' = Some(root(Unwrap(proof)))
    /\ UNCHANGED <<leaves, merkle, indexes, proof, origin, nidx, storeVars>>

NextMerkle ==
    \/ \E L \in LeafLists : TreeBuild(L)
    \/ \E idx \in IndexLists : GetProof(idx)
    \/ \E idx \in IndexLists : GetProofPanic(idx)
    \/ \E p \in ForgedProofs : ForgeProof(p)
    \/ \E x \in LeafItems : ExtraLemma(x)
    \/ \E k \in 1..MaxLeaves : MissingLemma(k)
    \/ ProofRoot

InitMerkle == IdleMerkle /\ InitStore({})

SpecMerkle == InitMerkle /\ [][NextMerkle]_vars

(***************************************************************************)
(* The block store, one thread: blocks are put in batches and committed.   *)
(***************************************************************************)
Blocks == BlocksOf(BlockHashes)

BlockPools == {{b1, b2} : b1 \in BlocksOf({1}), b2 \in Blocks}

InitBlock == IdleMerkle /\ \E p \in BlockPools : InitStore(p)

NextBlock ==
    \/ SaveWithBatch(1)
    \/ \E blk \in pool : InsertBlock(1, blk)
    \/ WriteOk(1)
    \/ WriteErr(1)
    \/ ClosureErr(1)

SpecBlock == InitBlock /\ [][NextBlock]_vars

(***************************************************************************)
(* The whole store, one thread: every writer of ChainStore in batches.     *)
(***************************************************************************)
\* the blocks at hand: a bare block, with a block of another hash or with a
\* block of the same hash and another body
StorePools ==
    {{BareBlock(1), BareBlock(2)},
     {BareBlock(1), [BareBlock(1) EXCEPT !.uncles = <<1>>]}}

\* create transaction 1 with one output; spend that output
StoreCells ==
    {<< <<<<>>, OutputsOf(1, 1)>> >>, << <<OutputsOf(1, 1), <<>>>> >>}

InitStoreAll == IdleMerkle /\ \E p \in StorePools : InitStore(p)

NextStore ==
    \/ SaveWithBatch(1)
    \/ \E blk \in pool : InsertBlock(1, blk)
    \/ \E e \in Exts : InsertBlockExt(1, 1, e)
    \/ \E r \in Roots : InsertOutputRoot(1, 1, r)
    \/ \E r \in StoredRoots(db), cells \in StoreCells : UpdateTransactionMeta(1, r, cells)
    \/ WriteOk(1)
    \/ WriteErr(1)
    \/ ClosureErr(1)

SpecStore == InitStoreAll /\ [][NextStore]_vars

(***************************************************************************)
(* The transaction-meta tree, one thread: update_transaction_meta in       *)
(* batches, at stored roots or on the cached tree, and rebuild_tree.       *)
(***************************************************************************)
MetaCells == CellListsOf(MaxDeltas, MaxInputs)

\* the trees a store can hold: each transaction absent, or with its outputs
\* live or spent
MetaRoots == [MetaKeys -> {None} \cup {Some(m) : m \in [1..MaxOutputs -> BOOLEAN]}]

\* ChainKVStore::new on a database that holds the tree r0
InitMeta ==
    /\ IdleMerkle
    /\ \E r0 \in MetaRoots :
          /\ db = [EmptyDb EXCEPT !.TRANSACTION_META = {r0} \ {EmptyTree}]
          /\ pool = {}
          /\ tree = AvlNew(EmptyTree)
          /\ pc = [t \in Threads |-> "idle"]
          /\ batch = [t \in Threads |-> <<>>]
          /\ inserted = [t \in Threads |-> <<>>]
          /\ ncalls = [t \in Threads |-> 0]
          /\ result = [t \in Threads |-> "none"]
          /\ utm = None
          /\ lock = 0
          /\ call = [t \in Threads |-> NoCall]
          /\ rd = IdleReader
          /\ it = NoIterator

\* one save_with_batch call
NextMeta ==
    \/ result[1] = "none" /\ SaveWithBatch(1)
    \/ \E r \in StoredRoots(db) \cup {tree.root}, cells \in MetaCells :
            UpdateTransactionMeta(1, r, cells)
    \/ \E r \in StoredRoots(db) : RebuildTree(r)
    \/ WriteOk(1)
    \/ WriteErr(1)
    \/ ClosureErr(1)

SpecMeta == InitMeta /\ [][NextMeta]_vars

(***************************************************************************)
(* A reader beside the writers: get_block(h) runs column by column while   *)
(* threads commit batches.                                                 *)
(***************************************************************************)
ConcBlocks == {b \in BlocksOf({1}) : b.proposal_transactions = <<>>}

ConcPools == {{b1, b2} : b1 \in ConcBlocks, b2 \in ConcBlocks}

InitConc == IdleMerkle /\ \E p \in ConcPools : InitStore(p)

NextConc ==
    \/ \E t \in Threads : SaveWithBatch(t)
    \/ \E t \in Threads, blk \in pool : ncalls[t] = 0 /\ InsertBlock(t, blk)
    \/ \E t \in Threads : WriteOk(t)
    \/ \E h \in {1} : GetBlockCall(h)
    \/ GetBlockRead

SpecConc == InitConc /\ [][NextConc]_vars

(***************************************************************************)
(* An iterator beside a writer: headers_iter(head) and next() while bare   *)
(* blocks are committed in any order.                                      *)
(***************************************************************************)
InitIter == IdleMerkle /\ InitStore({BareBlock(h) : h \in Hashes})

NextIter ==
    \/ SaveWithBatch(1)
    \/ \E blk \in pool : InsertBlock(1, blk)
    \/ WriteOk(1)
    \/ \E h \in Hashes : HeadersIter(IndexedHeader(h))
    \/ IteratorNext

SpecIter == InitIter /\ [][NextIter]_vars

(***************************************************************************)
(* Properties of the Merkle proof (SpecMerkle)                             *)
(***************************************************************************)
StrictAsc(idx) == \A k \in 1..(Len(idx) - 1) : idx[k] < idx[k + 1]

\* C1: for a non-empty leaf list and a non-empty ascending list of indexes
\* within it, get_proof gives a proof, and the root() of that proof is
\* Some(r) with r the root of the tree, nodes[0], which is build_root of the
\* leaves.
C1_ProofRootIsTreeRoot ==
    (/\ origin = "get_proof"
     /\ proofRoot # None
     /\ leaves # <<>>
     /\ indexes # <<>>
     /\ StrictAsc(indexes)
     /\ \A k \in 1..Len(indexes) : indexes[k] < Len(leaves))
    => /\ IsSome(proof)
       /\ Unwrap(proofRoot) = Some(merkle[1])
       /\ Unwrap(proofRoot) = build_root(leaves)

\* two of six leaves proved with three lemmas
C1_Witness ==
    /\ origin = "get_proof"
    /\ Len(leaves) = 6
    /\ indexes = <<0, 5>>
    /\ IsSome(proof)
    /\ Len(Unwrap(proof).lemmas) = 3
    /\ proofRoot = Some(Some(merkle[1]))

\* C4: root() is None for a proof with leaves_count 0, for a proof with a
\* lemma left over when the root is reached, and for a proof that ran out
\* of lemmas when a node needed a sibling that the queue did not hold.
C4_NoRootForBadLemmas ==
    proofRoot # None =>
        LET p == Unwrap(proof)
            run == RootRun(p)
        IN (\/ p.leaves_count = 0
            \/ run.used < Len(p.lemmas)
            \/ run.starved)
           => Unwrap(proofRoot) = None

\* C5: root() is None whenever a leaf of the proof has an index that is not
\* below leaves_count, whatever the lemmas.
C5_NoRootForIndexOutOfRange ==
    (/\ proofRoot # None
     /\ \E k \in 1..Len(Unwrap(proof).leaves) :
            Unwrap(proof).leaves[k][1] >= Unwrap(proof).leaves_count)
    => Unwrap(proofRoot) = None

(***************************************************************************)
(* Properties of the block store (SpecBlock, SpecStore)                    *)
(***************************************************************************)
\* thread t has just come back from save_with_batch
Returned(t) == pc[t] = "closure" /\ pc'[t] = "idle"

\* C2: when save_with_batch has returned Ok, get_block(b.hash) gives, for
\* every block b that insert_block wrote in that call, a block equal to b:
\* header, transactions with their hashes in order, uncles, proposal ids.
C2_InsertGetRoundTrip ==
    (pc[1] = "idle" /\ result[1] = "Ok") =>
        \A k \in 1..Len(inserted[1]) :
            /\ get_block_panics(db, inserted[1][k].header.hash) = "no"
            /\ get_block(db, inserted[1][k].header.hash) = Some(inserted[1][k])

\* the last insertion of the batch b for the key of its k-th insertion
LastFor(b, k) ==
    \A j \in (k + 1)..Len(b) : ~(b[j].col = b[k].col /\ b[j].key = b[k].key)

\* every insertion of the batch b is in the columns d, a later insertion
\* for the same key over an earlier one
Applied(d, b) ==
    \A k \in 1..Len(b) :
        IF b[k].col = "TRANSACTION_META"
        THEN b[k].value \in d.TRANSACTION_META
        ELSE LastFor(b, k) => Get(d, b[k].col, b[k].key) = Some(b[k].value)

\* C6 as stated: when f returns an error, save_with_batch returns it and
\* leaves every column as it was; when f returns Ok, every insertion that f
\* put in the batch is applied.
C6_ErrWritesNothingOkWritesAll ==
    [][Returned(1) =>
          IF result'[1] = "Err(f)" THEN db' = db ELSE Applied(db', batch[1])]_vars

\* C6: when f returns an error, save_with_batch returns it and leaves every
\* column as it was; when f returns Ok and save_with_batch returns Ok, every
\* insertion that f put in the batch is applied and nothing else changes;
\* when f returns Ok and the write fails, save_with_batch returns the error
\* of the write and leaves every column as it was.
C6_OnlyWrittenOnOk ==
    [][Returned(1) =>
          /\ result'[1] \in {"Ok", "Err(f)", "Err(write)"}
          /\ result'[1] # "Ok" => db' = db
          /\ result'[1] = "Ok" =>
                /\ Applied(db', batch[1])
                /\ \A col \in HashColumns, h \in Hashes :
                      (\A k \in 1..Len(batch[1]) :
                            ~(batch[1][k].col = col /\ batch[1][k].key = h))
                      => Get(db', col, h) = Get(db, col, h)]_vars

\* f put a block in the batch and returned an error: nothing is stored
C6_Witness ==
    /\ pc[1] = "idle"
    /\ result[1] = "Err(f)"
    /\ Len(inserted[1]) = 2
    /\ Len(batch[1]) = 12
    /\ db = EmptyDb

\* C9: once OUTPUT_ROOT[h] is set, get_output_root(h) gives the same root
\* after every further step, whatever is committed.
C9_OutputRootNeverOverwritten ==
    [][\A h \in Hashes :
          get_output_root(db, h) # None
          => get_output_root(db', h) = get_output_root(db, h)]_vars

\* C10: once get_block(h) gives a block, it gives the same block after
\* every further step, whatever is committed.
C10_BlocksAppendOnly ==
    [][\A h \in Hashes :
          (get_block_panics(db, h) = "no" /\ get_block(db, h) # None)
          => /\ get_block_panics(db', h) = "no"
             /\ get_block(db', h) = get_block(db, h)]_vars

(***************************************************************************)
(* Properties of update_transaction_meta (SpecMeta)                        *)
(***************************************************************************)
\* an earlier delta of cells creates the transaction key
CreatedBefore(cells, j, key) ==
    \E j2 \in 1..(j - 1) : cells[j2][2] # <<>> /\ cells[j2][2][1].hash = key

\* an earlier input of cells names the out point op
SpentBefore(cells, j, i, op) ==
    \E j2 \in 1..j : \E i2 \in 1..Len(cells[j2][1]) :
        (j2 < j \/ i2 < i) /\ cells[j2][1][i2] = op

\* the i-th input of the j-th delta names a transaction that is absent, or
\* an output that is clear in the tree r or cleared earlier in the call
InputInvalid(r, cells, j, i) ==
    LET op == cells[j][1][i]
    IN \/ r[op.hash] = None /\ ~CreatedBefore(cells, j, op.hash)
       \/ r[op.hash] # None /\ ~Unwrap(r[op.hash])[op.index + 1]
       \/ SpentBefore(cells, j, i, op)

\* the outputs of the j-th delta have a transaction id that is bound
OutputsCollide(r, cells, j) ==
    /\ cells[j][2] # <<>>
    /\ \/ r[cells[j][2][1].hash] # None
       \/ CreatedBefore(cells, j, cells[j][2][1].hash)

CellsInvalid(r, cells) ==
    \E j \in 1..Len(cells) :
        \/ \E i \in 1..Len(cells[j][1]) : InputInvalid(r, cells, j, i)
        \/ OutputsCollide(r, cells, j)

\* C3: update_transaction_meta(batch, root, cells) returns None exactly when,
\* applied to the tree at root, some input names an absent transaction or a
\* clear output bit (cleared earlier in the call included) or some non-empty
\* outputs list has a transaction id that is bound; else it returns Some.
C3_NoneIffCellsInvalid ==
    utm # None =>
        (Unwrap(utm).ret = None
            <=> CellsInvalid(Unwrap(utm).root, Unwrap(utm).cells))

(***************************************************************************)
(* Properties of get_block beside writers (SpecConc)                       *)
(***************************************************************************)
\* C7: a get_block(h) that runs while batches with insert_block for h are
\* committed gives None or one of the blocks inserted under h, never a mix
\* of the columns of two writes, and never ends in "must be stored".
C7_ReadersSeeWholeBlocks ==
    /\ rd.pc # "panic: must be stored"
    /\ rd.pc = "done" => (rd.ret = None \/ \E b \in pool : rd.ret = Some(b))

(***************************************************************************)
(* Properties of the header iterator (SpecIter)                            *)
(***************************************************************************)
Exhausted == it.started /\ it.head = None

\* the iterator gave head first, and then each time the header stored under
\* the parent hash of the one before, whose height was above 0
Linked ==
    /\ it.yielded # <<>>
    /\ it.yielded[1] = Unwrap(it.start)
    /\ \A k \in 1..(Len(it.yielded) - 1) :
          /\ it.yielded[k].number > 0
          /\ it.yielded[k + 1].hash = it.yielded[k].parent_hash

\* C8 as stated: headers_iter(head) gives head and then each parent in
\* turn, head.number + 1 headers in all, the last of height 0, and None
\* from every later next().
C8_YieldsNumberPlusOne ==
    Exhausted =>
        /\ Linked
        /\ Len(it.yielded) = Unwrap(it.start).number + 1
        /\ Last(it.yielded).number = 0
        /\ it.after >= 1 => it.last = Some(None)

\* C8: headers_iter(head) gives head and then the stored header of each
\* parent in turn, and None from every later next(); when every ancestor of
\* head down to height 0 was stored as the iterator was made, each numbered
\* one less than its child, it gives head.number + 1 headers, the last of
\* height 0.
C8_YieldsStoredAncestors ==
    Exhausted =>
        /\ Linked
        /\ it.after >= 1 => it.last = Some(None)
        /\ it.complete =>
              /\ Len(it.yielded) = Unwrap(it.start).number + 1
              /\ Last(it.yielded).number = 0

\* three headers given from a head of height 2, then None twice
C8_Witness ==
    /\ Exhausted
    /\ it.complete
    /\ Unwrap(it.start).number = 2
    /\ Len(it.yielded) = 3
    /\ it.after = 2


(***************************************************************************)
(* get_proof: when it answers, and what the proof holds                    *)
(***************************************************************************)
\* the node indexes whose items the while loop of get_proof pushes on lemmas
RECURSIVE LemmaLoop(_, _)
LemmaLoop(queue, acc) ==
    IF queue = <<>> THEN acc
    ELSE LET index == Head(queue)
             rest == Tail(queue)
         IN IF index = 0 THEN acc
            ELSE IF rest # <<>> /\ Head(rest) = sibling(index)
                 THEN LemmaLoop(Append(Tail(rest), parent(index)), acc)
                 ELSE LemmaLoop(Append(rest, parent(index)),
                                Append(acc, sibling(index)))

\* the queue get_proof starts from: the node indexes of the leaves, reversed
ProofQueue(n, leaf_indexes) ==
    [k \in 1..Len(leaf_indexes) |-> n + Reverse(leaf_indexes)[k] - 1]

\* the nodes on the path from node i up to the root
RECURSIVE PathOf(_)
PathOf(i) == IF i = 0 THEN {0} ELSE {i} \cup PathOf(parent(i))

\* the nodes on the paths from the proven leaves of an n-leaf tree to the root
PathNodes(n, leaf_indexes) ==
    UNION {PathOf(n + leaf_indexes[k] - 1) : k \in 1..Len(leaf_indexes)}

\* the siblings of path nodes that are on no path
OffPathSiblings(n, leaf_indexes) ==
    {sibling(i) : i \in PathNodes(n, leaf_indexes) \ {0}}
        \ PathNodes(n, leaf_indexes)

StrictDesc(s) == \A k \in 1..(Len(s) - 1) : s[k] > s[k + 1]

\* a get_proof call was made and came back (with a proof or with None)
ProofCalled == origin \in {"get_proof", "panic"}

ProofRejected ==
    \/ Len(leaves) = 0
    \/ indexes = <<>>
    \/ indexes[Len(indexes)] >= Len(leaves)

ProofAsDescribed ==
    /\ origin = "get_proof"
    /\ IsSome(proof)
    /\ Unwrap(proof).leaves_count = Len(leaves)
    /\ Unwrap(proof).leaves =
         [k \in 1..Len(indexes) |-> <<indexes[k], leaves[indexes[k] + 1]>>]

\* C17 as stated: get_proof(indexes) on a tree of n leaves returns None
\* exactly when the tree is empty, indexes is empty or the last index is
\* >= n, and in every other case returns a proof with leaves_count = n and
\* leaves = [(idx, L[idx])] in the given order.
C17_ProofUnlessRejected ==
    ProofCalled =>
        IF ProofRejected THEN origin = "get_proof" /\ proof = None
        ELSE ProofAsDescribed

\* C17 (amended): get_proof returns None exactly when the tree is empty,
\* indexes is empty or the last index is >= n; when it is not rejected and
\* every index is < n (as for the sorted indexes it assumes) it returns a
\* proof with leaves_count = n and leaves = [(idx, L[idx])] in the given
\* order; when it is not rejected and an earlier index is >= n it returns
\* nothing: it panics on the out-of-bounds node index.
C17_ProofUnlessRejectedOrOutOfBounds ==
    ProofCalled =>
        IF ProofRejected THEN origin = "get_proof" /\ proof = None
        ELSE IF \A k \in 1..Len(indexes) : indexes[k] < Len(leaves)
             THEN ProofAsDescribed
             ELSE origin = "panic"

\* a proof for two leaves given out of order, returned in the given order
C17_Witness ==
    /\ origin = "get_proof"
    /\ Len(leaves) >= 3
    /\ Len(indexes) = 2
    /\ indexes[1] > indexes[2]
    /\ ProofAsDescribed

InitAux == IdleMerkle /\ InitStore({BareBlock(1)})

NextAux ==
    \/ SaveWithBatch(1)
    \/ \E blk \in pool : InsertBlock(1, blk)
    \/ \E h \in BlockHashes, e \in Exts : InsertBlockExt(1, h, e)
    \/ \E h \in BlockHashes, r \in Roots : InsertOutputRoot(1, h, r)
    \/ WriteOk(1)
    \/ WriteErr(1)
    \/ ClosureErr(1)

SpecAux == InitAux /\ [][NextAux]_vars

\* the batch b holds an insertion into column col for key h
Writes(b, col, h) == \E k \in 1..Len(b) : b[k].col = col /\ b[k].key = h

\* C15: when save_with_batch has returned Ok, get_output_root(block_hash)
\* gives root for every pair (block_hash, root) that insert_output_root
\* wrote in that call; a hash for which no output root was ever written
\* gives None.
C15_OutputRootRoundTrip ==
    /\ [](\A h \in Hashes : get_output_root(EmptyDb, h) = None)
    /\ [][/\ (Returned(1) /\ result'[1] = "Ok") =>
                \A k \in 1..Len(batch[1]), r \in Roots :
                    (batch[1][k] = Insertion("OUTPUT_ROOT", batch[1][k].key, HashToVec(r)))
                    => get_output_root(db', batch[1][k].key) = Some(r)
           /\ \A h \in Hashes :
                (/\ get_output_root(db, h) = None
                 /\ ~(Returned(1) /\ result'[1] = "Ok"
                      /\ Writes(batch[1], "OUTPUT_ROOT", h)))
                => get_output_root(db', h) = None]_vars

\* C16: when save_with_batch has returned Ok, get_block_ext(hash) gives ext
\* for every pair (hash, ext) that insert_block_ext wrote in that call,
\* whether or not a block with that hash is stored, a later
\* insert_block_ext for the same hash replacing the earlier value.
C16_BlockExtRoundTrip ==
    [][(Returned(1) /\ result'[1] = "Ok") =>
          \A k \in 1..Len(batch[1]), e \in Exts :
              (/\ batch[1][k] = Insertion("EXT", batch[1][k].key, SerializeExt(e))
               /\ LastFor(batch[1], k))
              => get_block_ext(db', batch[1][k].key) = Some(e)]_vars

\* an ext stored for a hash with no block, replaced by a later call, and
\* an ext written twice in one call, the second one returned
C16_Witness ==
    /\ pc[1] = "idle"
    /\ result[1] = "Ok"
    /\ get_header(db, 2) = None
    /\ Len(batch[1]) = 2
    /\ \E e1, e2 \in Exts :
          /\ e1 # e2
          /\ batch[1] = <<Insertion("EXT", 2, SerializeExt(e1)),
                          Insertion("EXT", 2, SerializeExt(e2))>>
          /\ get_block_ext(db, 2) = Some(e2)


(***************************************************************************)
(* Properties of the roots update_transaction_meta gives (SpecMeta)        *)
(***************************************************************************)
\* the last update_transaction_meta call returned Some and its batch is
\* written
UpdateWritten ==
    /\ utm # None
    /\ Unwrap(utm).ret # None
    /\ pc[1] = "idle"
    /\ result[1] = "Ok"

\* C11: after update_transaction_meta(batch, r, cells) has returned Some(r')
\* and the batch is written, get_transaction_meta(r, k) gives for every key
\* k what it gave before the call: the changes are not visible at r.
C11_OldRootReadsAsBefore ==
    UpdateWritten =>
        \A k \in MetaKeys :
            get_transaction_meta(tree, db, Unwrap(utm).root, k) = Unwrap(utm).pre[k]


\* the out point op is named by an input of cells
SpentIn(cells, op) ==
    \E j \in 1..Len(cells) : \E i \in 1..Len(cells[j][1]) : cells[j][1][i] = op

\* cells create the transaction key with n outputs
CreatedIn(cells, key, n) ==
    \E j \in 1..Len(cells) :
        /\ Len(cells[j][2]) = n
        /\ n # 0
        /\ cells[j][2][1].hash = key

\* the tree that the deltas of cells make of the tree r: a spent bit clear,
\* a created transaction with a meta of the length of its outputs, every
\* other key and bit as in r
Reflects(r, cells) ==
    [k \in MetaKeys |->
        LET n == IF r[k] # None THEN Len(Unwrap(r[k]))
                 ELSE IF \E m \in 1..MaxOutputs : CreatedIn(cells, k, m)
                      THEN CHOOSE m \in 1..MaxOutputs : CreatedIn(cells, k, m)
                      ELSE 0
        IN IF n = 0 THEN None
           ELSE Some([i \in 1..n |->
                        /\ r[k] # None => Unwrap(r[k])[i]
                        /\ ~SpentIn(cells, [hash |-> k, index |-> i - 1])])]

\* C14: when update_transaction_meta(batch, r, cells) has returned Some(r')
\* and the batch is written, the tree at r' is the tree at r with exactly
\* the deltas applied: spent bits clear, each created transaction bound to
\* a meta of the length of its outputs with every bit set that no later
\* input of the call spent, every other key and bit as at r.
C14_NewRootReflectsDeltas ==
    UpdateWritten =>
        \A k \in MetaKeys :
            get_transaction_meta(tree, db, Unwrap(Unwrap(utm).ret), k)
                = Reflects(Unwrap(utm).root, Unwrap(utm).cells)[k]


\* C20: along the roots that successful update_transaction_meta calls give,
\* a key bound at r is bound at the next root r' with a bitmap of the same
\* length whose set bits are set at r (a bit never comes back); an entry
\* that is new at r' has every bit set that no input of the call spent.
C20_BitsOnlyClear ==
    (utm # None /\ Unwrap(utm).ret # None) =>
        LET r == Unwrap(utm).root
            r2 == Unwrap(Unwrap(utm).ret)
        IN \A k \in MetaKeys :
              /\ r[k] # None =>
                    /\ r2[k] # None
                    /\ Len(Unwrap(r2[k])) = Len(Unwrap(r[k]))
                    /\ \A i \in 1..Len(Unwrap(r[k])) :
                          Unwrap(r2[k])[i] => Unwrap(r[k])[i]
              /\ (r[k] = None /\ r2[k] # None) =>
                    \A i \in 1..Len(Unwrap(r2[k])) :
                        Unwrap(r2[k])[i]
                            <=> ~SpentIn(Unwrap(utm).cells, [hash |-> k, index |-> i - 1])


(***************************************************************************)
(* Cells of several deltas: one save_with_batch call on a store that holds *)
(* a tree r0 of one transaction at most, a first update_transaction_meta   *)
(* of at most MaxDeltas deltas and a later one of at most MaxSeqDeltas     *)
(* deltas, of MaxSeqInputs inputs each at most                             *)
(***************************************************************************)
MaxSeqDeltas == 2

MaxSeqInputs == 1

\* the trees of one transaction at most
SeqRoots == {r \in MetaRoots : \A k \in MetaKeys \ {1} : r[k] = None}

\* ChainKVStore::new on a database that holds the tree r0
InitCells ==
    /\ IdleMerkle
    /\ \E r0 \in SeqRoots :
          /\ db = [EmptyDb EXCEPT !.TRANSACTION_META = {r0} \ {EmptyTree}]
          /\ pool = {}
          /\ tree = AvlNew(EmptyTree)
          /\ pc = [t \in Threads |-> "idle"]
          /\ batch = [t \in Threads |-> <<>>]
          /\ inserted = [t \in Threads |-> <<>>]
          /\ ncalls = [t \in Threads |-> 0]
          /\ result = [t \in Threads |-> "none"]
          /\ utm = None
          /\ lock = 0
          /\ call = [t \in Threads |-> NoCall]
          /\ rd = IdleReader
          /\ it = NoIterator

NextCells ==
    \/ result[1] = "none" /\ SaveWithBatch(1)
    \/ \E r \in StoredRoots(db) \cup {tree.root} :
          \E cells \in CellListsOf(IF ncalls[1] = 0 THEN MaxDeltas ELSE MaxSeqDeltas,
                                   MaxSeqInputs) :
              UpdateTransactionMeta(1, r, cells)
    \/ \E r \in StoredRoots(db) : pc[1] = "closure" /\ RebuildTree(r)
    \/ WriteOk(1)

SpecCells == InitCells /\ [][NextCells]_vars

\* the j-th delta of cells, or a later one, creates the transaction key
CreatedFrom(cells, j, key) ==
    \E j2 \in j..Len(cells) : cells[j2][2] # <<>> /\ cells[j2][2][1].hash = key

\* C19: within one update_transaction_meta call the deltas are applied in
\* list order, the inputs of a delta before its outputs.  An input may
\* spend an output that an earlier delta of the call created: a call in
\* which every input names an output that is live in the tree the call
\* starts from or was created by an earlier delta, not spent earlier in the
\* call, and no outputs list names a bound transaction, returns Some.  An
\* input that names an output created by its own delta or a later one, the
\* transaction being absent at the parent root, makes the call return None.
C19_DeltasInListOrder ==
    utm # None =>
        LET u == Unwrap(utm) IN
        /\ ~CellsInvalid(u.pre, u.cells) => u.ret # None
        /\ (\E j \in 1..Len(u.cells) : \E i \in 1..Len(u.cells[j][1]) :
                LET key == u.cells[j][1][i].hash
                IN /\ u.root[key] = None
                   /\ ~CreatedBefore(u.cells, j, key)
                   /\ CreatedFrom(u.cells, j, key))
           => u.ret = None

\* a call that creates a transaction in its first delta and spends one of
\* its outputs in the second returns Some
C19_Witness ==
    /\ utm # None
    /\ Len(Unwrap(utm).cells) = 2
    /\ Unwrap(utm).cells[1][2] # <<>>
    /\ Len(Unwrap(utm).cells[2][1]) = 1
    /\ Unwrap(utm).cells[2][1][1].hash = Unwrap(utm).cells[1][2][1].hash
    /\ Unwrap(utm).root[Unwrap(utm).cells[1][2][1].hash] = None
    /\ Unwrap(utm).ret # None


(***************************************************************************)
(* The writer lock of the cached tree.  update_transaction_meta,           *)
(* get_transaction_meta and rebuild_tree, each in the steps between which  *)
(* another thread can run: taking self.tree.write(), choosing the cached   *)
(* tree or another way, and the work after the choice.                     *)
(***************************************************************************)
LockCells == CellListsOf(MaxDeltas, MaxSeqInputs)

\* let mut tree = self.tree.write() of update_transaction_meta: the call
\* waits until the lock is free
UtmLock(t, r, cells) ==
    /\ pc[t] = "closure"
    /\ ncalls[t] < MaxOps
    /\ call[t].op = "none"
    /\ r \in StoredRoots(db) \/ AvlRootHash(tree) = Some(r)
    /\ lock = 0
    /\ lock' = t
    /\ call' = [call EXCEPT ![t] = [NoCall EXCEPT !.op = "update", !.stage = "locked",
                                                  !.root = r, !.cells = cells]]
    /\ UNCHANGED <<merkleVars, pool, db, tree, pc, batch, inserted, ncalls, result,
                   utm, rd, it>>

\* a choice that gives the lock up on both ways
UtmChooseDrops(t) ==
    /\ call[t].op = "update"
    /\ call[t].stage = "locked"
    /\ lock' = 0
    /\ call' = [call EXCEPT ![t].stage = "apply",
                            ![t].cached = AvlRootHash(tree) = Some(call[t].root)]
    /\ UNCHANGED <<merkleVars, pool, db, tree, pc, batch, inserted, ncalls, result,
                   utm, rd, it>>

\* let avl = if tree.root_hash() == Some(root) { &mut *tree }
\*           else { drop(tree); &mut new }
UtmChoose(t) ==
    /\ call[t].op = "update"
    /\ call[t].stage = "locked"
    /\ lock' = IF AvlRootHash(tree) = Some(call[t].root) THEN lock ELSE 0
    /\ call' = [call EXCEPT ![t].stage = "apply",
                            ![t].cached = AvlRootHash(tree) = Some(call[t].root)]
    /\ UNCHANGED <<merkleVars, pool, db, tree, pc, batch, inserted, ncalls, result,
                   utm, rd, it>>

\* the loop over cells, the commit and the return, the guard dropped if it
\* is still held
UtmApply(t) ==
    /\ call[t].op = "update"
    /\ call[t].stage = "apply"
    /\ LET c == call[t]
           u == update_on_path(c.cached, tree, batch[t], c.root, c.cells)
       IN /\ tree' = u.tree
          /\ batch' = [batch EXCEPT ![t] = u.batch]
          /\ utm' = Some([root |-> c.root, cells |-> c.cells, ret |-> u.ret,
                          cached |-> c.cached,
                          before |-> batch[t],
                          pre |-> [k \in MetaKeys |->
                                     IF c.cached THEN AvlGet(tree, k)
                                     ELSE Search(db, c.root, k)]])
          /\ call' = [call EXCEPT ![t] = [NoCall EXCEPT !.ret = u.ret]]
    /\ lock' = IF lock = t THEN 0 ELSE lock
    /\ ncalls' = [ncalls EXCEPT ![t] = @ + 1]
    /\ UNCHANGED <<merkleVars, pool, db, pc, inserted, result, rd, it>>

\* let mut tree = self.tree.write() of get_transaction_meta
GtmLock(t, r, key) ==
    /\ call[t].op = "none"
    /\ pc[t] = "idle"
    /\ r \in StoredRoots(db) \/ AvlRootHash(tree) = Some(r)
    /\ lock = 0
    /\ lock' = t
    /\ call' = [call EXCEPT ![t] = [NoCall EXCEPT !.op = "get", !.stage = "locked",
                                                  !.root = r, !.key = key]]
    /\ UNCHANGED <<merkleVars, pool, db, tree, pc, batch, inserted, ncalls, result,
                   utm, rd, it>>

\* if tree.root_hash() == Some(root) { return tree.get(key) }, and the end
\* of the block that holds the guard
GtmChoose(t) ==
    /\ call[t].op = "get"
    /\ call[t].stage = "locked"
    /\ lock' = 0
    /\ call' = [call EXCEPT ![t] =
                  IF AvlRootHash(tree) = Some(call[t].root)
                  THEN [NoCall EXCEPT !.ret = AvlGet(tree, call[t].key)]
                  ELSE [call[t] EXCEPT !.stage = "search"]]
    /\ UNCHANGED <<merkleVars, pool, db, tree, pc, batch, inserted, ncalls, result,
                   utm, rd, it>>

\* search(&*self.db, COLUMN_TRANSACTION_META, root, key)
GtmSearch(t) ==
    /\ call[t].op = "get"
    /\ call[t].stage = "search"
    /\ call' = [call EXCEPT ![t] = [NoCall EXCEPT !.ret = Search(db, call[t].root, call[t].key)]]
    /\ UNCHANGED <<merkleVars, pool, db, tree, pc, batch, inserted, ncalls, result,
                   utm, rd, it, lock>>

\* let mut tree = self.tree.write() of rebuild_tree
RebuildLock(t, r) ==
    /\ call[t].op = "none"
    /\ pc[t] = "idle"
    /\ r \in StoredRoots(db)
    /\ lock = 0
    /\ lock' = t
    /\ call' = [call EXCEPT ![t] = [NoCall EXCEPT !.op = "rebuild", !.stage = "locked",
                                                  !.root = r]]
    /\ UNCHANGED <<merkleVars, pool, db, tree, pc, batch, inserted, ncalls, result,
                   utm, rd, it>>

\* tree.reconstruct(r), and the return
RebuildDo(t) ==
    /\ call[t].op = "rebuild"
    /\ call[t].stage = "locked"
    /\ tree' = AvlReconstruct(tree, call[t].root)
    /\ lock' = 0
    /\ call' = [call EXCEPT ![t] = NoCall]
    /\ UNCHANGED <<merkleVars, pool, db, pc, batch, inserted, ncalls, result,
                   utm, rd, it>>

\* the closure f returns only between its calls
CloseOk(t) == call[t].op = "none" /\ WriteOk(t)

InitLock == InitCells

\* thread 1 writes: one save_with_batch with update_transaction_meta calls;
\* thread 2 reads and rebuilds beside it
NextLock ==
    \/ result[1] = "none" /\ SaveWithBatch(1)
    \/ \E r \in StoredRoots(db) \cup {tree.root}, cells \in LockCells : UtmLock(1, r, cells)
    \/ UtmChoose(1)
    \/ UtmApply(1)
    \/ CloseOk(1)
    \/ \E r \in StoredRoots(db) \cup {tree.root}, key \in MetaKeys : GtmLock(2, r, key)
    \/ GtmChoose(2)
    \/ GtmSearch(2)
    \/ \E r \in StoredRoots(db) : RebuildLock(2, r)
    \/ RebuildDo(2)

SpecLock == InitLock /\ [][NextLock]_vars


\* thread t takes a step of its call op on the tree
Steps(t, op) == call'[t] # call[t] /\ (call[t].op = op \/ call'[t].op = op)

\* the call of thread t goes, or has gone, the way of a root that is not
\* the cached one
OffCache(t) ==
    IF call[t].stage = "apply" \/ call[t].stage = "search" THEN ~call[t].cached
    ELSE AvlRootHash(tree) # Some(IF call[t].op = "none" THEN call'[t].root
                                   ELSE call[t].root)

\* C12: a step of update_transaction_meta or get_transaction_meta called
\* with a root that is not the root_hash of the cached tree leaves the
\* cached tree, root hash and contents, as it was, whether the call gives
\* Some or None.
C12_OffCacheCallsLeaveCachedTree ==
    [][\A t \in Threads :
          ((Steps(t, "update") \/ Steps(t, "get")) /\ OffCache(t))
          => tree' = tree]_vars

\* an update_transaction_meta at a root other than the cached one has
\* returned and a get_transaction_meta has answered, the cached tree being
\* at a root that is neither the one given nor the one returned
C12_Witness ==
    /\ utm # None
    /\ ~Unwrap(utm).cached
    /\ Unwrap(utm).cells # <<>>
    /\ AvlRootHash(tree) # None
    /\ AvlRootHash(tree) # Some(Unwrap(utm).root)
    /\ AvlRootHash(tree) # Unwrap(utm).ret
    /\ call[1].op = "none"
    /\ call[2].op = "none"
    /\ call[2].ret # None

\* thread t is inside a call of op, between taking the lock and returning
Inside(t, op) == call[t].op = op

\* C13 as stated: update_transaction_meta and rebuild_tree hold the writer
\* lock of the cached tree from their first step until they return, on the
\* cached-root path and on the other one, so that no other thread has the
\* lock in between.
C13_LockHeldUntilReturn ==
    \A t \in Threads :
        (Inside(t, "update") \/ Inside(t, "rebuild")) => lock = t

\* C13 (amended): rebuild_tree holds the writer lock until it returns, and
\* so does update_transaction_meta when root is the root_hash of the cached
\* tree; when it is not, update_transaction_meta drops the lock once it has
\* compared the roots and runs the loop and the commit, on its own tree,
\* without the lock.  While a thread holds the lock no other thread is
\* past the first step of a call on the cached tree.
C13_LockHeldOnCachedPath ==
    \A t \in Threads :
        /\ Inside(t, "rebuild") => lock = t
        /\ (Inside(t, "update") /\ call[t].stage = "locked") => lock = t
        /\ (Inside(t, "update") /\ call[t].stage = "apply") =>
              IF call[t].cached THEN lock = t ELSE lock # t
        /\ lock = t =>
              \A t2 \in Threads \ {t} :
                  call[t2].stage # "locked"
                  /\ ~(call[t2].stage = "apply" /\ call[t2].cached)

\* update_transaction_meta is on the cached tree, between the choice and
\* the loop, with the lock, and the other thread inside no call
C13_Witness ==
    /\ Inside(1, "update")
    /\ call[1].stage = "apply"
    /\ call[1].cached
    /\ call[1].cells # <<>>
    /\ lock = 1
    /\ call[2].op = "none"
    /\ call[2].ret # None


(***************************************************************************)
(* NodeIndex for usize: sibling, parent and is_left applied to a node      *)
(* index i >= 1 of an array tree of MaxLeaves leaves at most, and to the    *)
(* sibling that sibling gave                                               *)
(***************************************************************************)
\* the node indexes other than the root: a tree of n leaves has 2n - 1 nodes
NodeIndexes == 1..(2 * MaxLeaves - 2)

InitIndex ==
    /\ leaves = <<>>
    /\ merkle = <<>>
    /\ indexes = <<>>
    /\ proof = None
    /\ origin = "none"
    /\ proofRoot = None
    /\ InitStore({})
    /\ \E i \in NodeIndexes : nidx = [NoNode EXCEPT !.i = i]

\* i.sibling(), then i.sibling().sibling()
CallSibling ==
    /\ nidx.ss = None
    /\ nidx' = IF nidx.s = None
               THEN [nidx EXCEPT !.s = Some(sibling(nidx.i))]
               ELSE [nidx EXCEPT !.ss = Some(sibling(Unwrap(nidx.s)))]
    /\ UNCHANGED <<leaves, merkle, indexes, proof, origin, proofRoot, storeVars>>

\* i.parent(), or i.sibling().parent()
CallParent(of_sibling) ==
    /\ IF of_sibling
       THEN /\ nidx.s # None
            /\ nidx.ps = None
            /\ nidx' = [nidx EXCEPT !.ps = Some(parent(Unwrap(nidx.s)))]
       ELSE /\ nidx.p = None
            /\ nidx' = [nidx EXCEPT !.p = Some(parent(nidx.i))]
    /\ UNCHANGED <<leaves, merkle, indexes, proof, origin, proofRoot, storeVars>>

\* i.is_left(), or i.sibling().is_left()
CallIsLeft(of_sibling) ==
    /\ IF of_sibling
       THEN /\ nidx.s # None
            /\ nidx.ls = None
            /\ nidx' = [nidx EXCEPT !.ls = Some(is_left(Unwrap(nidx.s)))]
       ELSE /\ nidx.l = None
            /\ nidx' = [nidx EXCEPT !.l = Some(is_left(nidx.i))]
    /\ UNCHANGED <<leaves, merkle, indexes, proof, origin, proofRoot, storeVars>>

NextIndex ==
    \/ CallSibling
    \/ \E b \in BOOLEAN : CallParent(b)
    \/ \E b \in BOOLEAN : CallIsLeft(b)

SpecIndex == InitIndex /\ [][NextIndex]_vars

\* C22: for every node index i >= 1 of the array tree, sibling(i) # i,
\* sibling(sibling(i)) = i, parent(sibling(i)) = parent(i), exactly one of i
\* and sibling(i) is_left, the left one is 2 * parent(i) + 1 and the right
\* one 2 * parent(i) + 2.
C22_SiblingParentIdentities ==
    /\ nidx.s # None => Unwrap(nidx.s) # nidx.i
    /\ nidx.ss # None => Unwrap(nidx.ss) = nidx.i
    /\ (nidx.ps # None /\ nidx.p # None) => Unwrap(nidx.ps) = Unwrap(nidx.p)
    /\ (nidx.l # None /\ nidx.ls # None) => Unwrap(nidx.l) # Unwrap(nidx.ls)
    /\ (nidx.l # None /\ nidx.p # None) =>
          nidx.i = 2 * Unwrap(nidx.p) + (IF Unwrap(nidx.l) THEN 1 ELSE 2)
    /\ (nidx.ls # None /\ nidx.p # None) =>
          Unwrap(nidx.s) = 2 * Unwrap(nidx.p) + (IF Unwrap(nidx.ls) THEN 1 ELSE 2)

\* every function was applied to a right child and to its sibling
C22_Witness ==
    /\ nidx.i = 2 * MaxLeaves - 2
    /\ nidx.s = Some(nidx.i - 1)
    /\ nidx.ss = Some(nidx.i)
    /\ nidx.p = Some(MaxLeaves - 2)
    /\ nidx.ps = nidx.p
    /\ nidx.l = Some(FALSE)
    /\ nidx.ls = Some(TRUE)

(***************************************************************************)
(* The batch and the cached tree around a failing update_transaction_meta  *)
(***************************************************************************)
\* thread t makes an update_transaction_meta call that returns None
UpdateFails(t) ==
    /\ ncalls'[t] = ncalls[t] + 1
    /\ utm' # None
    /\ Unwrap(utm').before = batch[t]
    /\ Unwrap(utm').ret = None

\* C24: an update_transaction_meta call that returns None leaves in the
\* batch exactly the insertions that it held before the call.
C24_FailedUpdateLeavesBatch ==
    [][\A t \in Threads : UpdateFails(t) => batch'[t] = batch[t]]_vars

\* a call on the cached tree has failed after it had changed the tree, the
\* batch holding the nodes of an earlier call and nothing more
C24_Witness ==
    /\ utm # None
    /\ Unwrap(utm).ret = None
    /\ Unwrap(utm).cached
    /\ Unwrap(utm).pre = Unwrap(utm).root
    /\ tree.cur # tree.root
    /\ Len(batch[1]) = 1
    /\ batch[1] = Unwrap(utm).before

\* the nodes of the tree r are in the TRANSACTION_META column of d, so that
\* a lookup at root r can be answered from the column
RootStored(d, r) == r \in StoredRoots(d)

\* C23: in every state, when the root_hash of the cached tree is r, the
\* nodes of r are in the TRANSACTION_META column and for every key k the
\* cached tree gives what the lookup of k at root r in the column gives,
\* also after an update_transaction_meta on the cached tree that returned
\* None and after a save_with_batch that ran update_transaction_meta and
\* wrote nothing.
C23_CachedTreeAgreesWithStore ==
    \A r \in MetaRoots :
        AvlRootHash(tree) = Some(r) =>
            /\ RootStored(db, r)
            /\ \A k \in MetaKeys :
                  get_transaction_meta(tree, db, r, k) = Search(db, r, k)

(***************************************************************************)
(* The columns of a block: one caller whose closures use insert_block,     *)
(* insert_block_ext, insert_output_root and update_transaction_meta, the   *)
(* blocks being two blocks of hash 1 that differ in their transactions     *)
(***************************************************************************)
\* the blocks of header h with no transaction, with transaction 1, and
\* with transactions 1 and 2
BodyBlocks(h) ==
    {[BareBlock(h) EXCEPT !.commit_transactions = body] :
        body \in {b \in Bodies : \A k \in 1..Len(b) : b[k].transaction = k}}

CompanionPools == {{b1, b2} : b1 \in BodyBlocks(1), b2 \in BodyBlocks(1)}

InitCompanions == IdleMerkle /\ \E p \in CompanionPools : InitStore(p)

NextCompanions ==
    \/ SaveWithBatch(1)
    \/ \E blk \in pool : InsertBlock(1, blk)
    \/ InsertBlockExt(1, 1, CHOOSE e \in Exts : TRUE)
    \/ InsertOutputRoot(1, 1, 1)
    \/ \E r \in StoredRoots(db), cells \in StoreCells : UpdateTransactionMeta(1, r, cells)
    \/ WriteOk(1)
    \/ WriteErr(1)
    \/ ClosureErr(1)

SpecCompanions == InitCompanions /\ [][NextCompanions]_vars

CompanionColumns ==
    {"BLOCK_BODY", "BLOCK_TRANSACTION_ADDRESSES", "BLOCK_TRANSACTION_IDS",
     "BLOCK_UNCLE", "BLOCK_PROPOSAL_IDS"}

\* C21: in every state reached through save_with_batch calls that use
\* insert_block, insert_block_ext, insert_output_root and
\* update_transaction_meta, a hash with a BLOCK_HEADER entry has an entry in
\* each of the five other block columns, its address list and its
\* transaction-id list are as long as its transaction list; get_block
\* gives None for a hash with no header and never ends in one of the
\* expect("... must be stored").
C21_HeaderHasCompanions ==
    \A h \in Hashes :
        /\ Get(db, "BLOCK_HEADER", h) # None =>
              /\ \A col \in CompanionColumns : Get(db, col, h) # None
              /\ LET addresses == DeserializeAddresses(
                                      Unwrap(Get(db, "BLOCK_TRANSACTION_ADDRESSES", h)))
                     txs_ids == DeserializeVec(Unwrap(Get(db, "BLOCK_TRANSACTION_IDS", h)))
                 IN /\ Len(addresses) = Len(txs_ids)
                    /\ ~get_block_body_panics(db, h)
                    /\ Len(Unwrap(get_block_body(db, h))) = Len(txs_ids)
        /\ Get(db, "BLOCK_HEADER", h) = None => get_block(db, h) = None
        /\ get_block_panics(db, h) # "must be stored"

\* a block of two transactions stored beside an ext, an output root and a
\* tree, where a block of one transaction had been written in the same call
C21_Witness ==
    /\ pc[1] = "idle"
    /\ result[1] = "Ok"
    /\ Len(inserted[1]) = 2
    /\ Len(inserted[1][1].commit_transactions) = 1
    /\ Len(inserted[1][2].commit_transactions) = 2
    /\ get_block(db, 1) = Some(inserted[1][2])
    /\ get_block_ext(db, 1) # None
    /\ get_output_root(db, 1) # None
    /\ db.TRANSACTION_META # {}
    /\ get_block(db, 2) = None

====
